---- MODULE Spec2Model ----
(***************************************************************************)
(* The demonlist ranking of pointercrate: Demon::create_from (the          *)
(* transactional insert with position shifting, src/model/demon/post.rs),  *)
(* the list segmentation of the overview page (src/view/demonlist.rs) and  *)
(* the overview of now or of a past instant                                *)
(* (src/view/demonlist/overview.rs).                                       *)
(*                                                                         *)
(* The helpers create_from calls (Demon::validate_requirement,             *)
(* validate_name, validate_position, shift_down, Player::get,              *)
(* Creator::create_from, video::validate) are declared elsewhere in the    *)
(* repository; they are modelled from their contracts in spec.md.          *)
(***************************************************************************)
EXTENDS Integers, Sequences, FiniteSets, TLC

VARIABLES
    demons,     \* committed rows of the table `demons`
    creators,   \* committed rows of the creator link table
    players,    \* committed rows of the table `players`
    pc,         \* "idle": no request in flight; "done": a response is pending
    call,       \* the last create_from call: its PostDemon and its Result
    pre,        \* the committed tables when the last call started
    txn,        \* per connection: the open transaction of a concurrent create
    seg,        \* dropdowns: its input, the configured sizes and its slices
    audit,      \* the audit facts of the positions, append-only
    now,        \* the clock: Utc::now()
    past,       \* what the live list was at the end of each past instant
    view        \* the overview the last request of the index page loaded

vars == <<demons, creators, players, pc, call, pre, txn, seg, audit, now, past, view>>

\* The variables of the ranking's history and of the overview page.
hist == <<audit, now, past, view>>

----------------------------------------------------------------------------
(* Bounds and input domains *)

\* EARLIEST_DATE of the index page, 2017-01-04T00:00:00Z, on a clock that
\* counts instants; the service runs at instants after it.
EARLIEST_DATE == 2

\* Number of demon names requests draw from (the first NumNames of NamePool).
NumNames == 4

NamePool == <<"Bloodbath", "bloodbath", "Sonic Wave", "Cataclysm", "Aftermath", "Zodiac">>

DemonNames == {NamePool[i] : i \in 1..NumNames}

\* CiStr / CiString compare case-insensitively: equality of the lowercase key.
Lower(s) ==
    CASE s = "Bloodbath" -> "bloodbath"
      [] s = "Sonic Wave" -> "sonic wave"
      [] s = "Cataclysm" -> "cataclysm"
      [] s = "Aftermath" -> "aftermath"
      [] s = "Zodiac" -> "zodiac"
      [] s = "Stardust1971" -> "stardust1971"
      [] s = "Riot" -> "riot"
      [] OTHER -> s

CiEq(a, b) == Lower(a) = Lower(b)

\* The players that exist; "ghost" names no player.
InitialPlayers == {[id |-> 1, name |-> "Stardust1971"], [id |-> 2, name |-> "Riot"]}

\* Option<String>: <<>> is None, <<v>> is Some(v).
\* The fields checked before the transaction opens: each requirement without
\* a video, and a malformed video with a requirement that passes.
Checked ==
    {[requirement |-> r, video |-> <<>>] : r \in {-1, 0, 100, 101}}
        \cup {[requirement |-> 100, video |-> <<"not a video">>]}

\* The player names of a request: all known, or one of them unknown.
References ==
    {[verifier |-> "Riot", publisher |-> "stardust1971", creators |-> <<>>],
     [verifier |-> "ghost", publisher |-> "stardust1971", creators |-> <<>>],
     [verifier |-> "Riot", publisher |-> "ghost", creators |-> <<>>],
     [verifier |-> "Riot", publisher |-> "stardust1971", creators |-> <<"ghost">>],
     [verifier |-> "Riot", publisher |-> "stardust1971", creators |-> <<"Riot", "ghost">>]}

\* A storage error (TransactionFailure) injected into one statement.
Faults == {"none", "shift_down", "insert", "creator"}

\* struct PostDemon, for a table of `count` rows.
PostDemon(count) ==
    {[name |-> n, position |-> p, requirement |-> c.requirement, verifier |-> r.verifier,
      publisher |-> r.publisher, creators |-> r.creators, video |-> c.video] :
        n \in DemonNames, p \in 0..(count + 2), c \in Checked, r \in References}

----------------------------------------------------------------------------
(* The helpers of create_from *)

Database(d, c, p) == [demons |-> d, creators |-> c, players |-> p]

\* Result<T>: Ok with the working tables, or Err(kind) raised at a step.
Ok(db) == [err |-> "Ok", at |-> "commit", db |-> db]

Err(kind, step, db) == [err |-> kind, at |-> step, db |-> db]

\* Demon::validate_requirement: OutOfRange unless 0 <= r <= 100, no clamping.
validate_requirement(requirement) == requirement >= 0 /\ requirement <= 100

\* video::validate: InvalidFormat unless the URL is of a recognised host.
video_validate(video) == video # "not a video"

\* position IS NULL: the row of a demon that is no longer on the list.
Null == 0

\* The rows of the active demons: WHERE position IS NOT NULL.
Active(rows) == {d \in rows : d.position # Null}

\* Demon::validate_name: Conflict if an active demon has the name (CiStr).
validate_name(name, db) == \A d \in Active(db.demons) : ~CiEq(d.name, name)

\* Demon::validate_position: OutOfRange unless 1 <= pos <= current_count + 1.
validate_position(position, db) ==
    position >= 1 /\ position <= Cardinality(Active(db.demons)) + 1

\* Player::get: the player of that name, NotFound if there is none.
Player_get(name, db) == {p \in db.players : CiEq(p.name, name)}

\* Demon::shift_down: one bulk UPDATE, position + 1 where position >= threshold.
shift_down(threshold, rows) ==
    {IF d.position # Null /\ d.position >= threshold
     THEN [d EXCEPT !.position = @ + 1] ELSE d : d \in rows}

\* Demon::shift_up: one bulk UPDATE, position - 1 where position > threshold.
shift_up(threshold, rows) ==
    {IF d.position # Null /\ d.position > threshold
     THEN [d EXCEPT !.position = @ - 1] ELSE d : d \in rows}

\* struct NewDemon built from the validated PostDemon.
NewDemon(data, verifier, publisher, video) ==
    [name |-> data.name,
     position |-> data.position,
     requirement |-> data.requirement,
     verifier |-> verifier.id,
     publisher |-> publisher.id,
     video |-> video]

\* Creator::create_from((demon, creator)): the creator's player is looked up
\* (NotFound if there is none) and the link is inserted.
Creator_create_from(name, creator, db, fault) ==
    LET found == Player_get(creator, db) IN
    IF found = {} THEN Err("NotFound", "creator", db)
    ELSE IF fault = "creator" THEN Err("TransactionFailure", "creator", db)
    ELSE Ok([db EXCEPT !.creators =
                 @ \cup {[demon |-> name, creator |-> (CHOOSE p \in found : TRUE).id]}])

\* for creator in &data.creators { Creator::create_from(..)?; }
RECURSIVE insert_creators(_, _, _, _)
insert_creators(name, names, db, fault) ==
    IF names = <<>> THEN Ok(db)
    ELSE LET linked == Creator_create_from(name, Head(names), db, fault) IN
         IF linked.err # "Ok" THEN linked
         ELSE insert_creators(name, Tail(names), linked.db, fault)

\* Lines 48-52 with the swapped order of the two validations.
closure_checks_PositionFirst(data, db) ==
    IF ~validate_position(data.position, db)
    THEN Err("OutOfRange", "validate_position", db)
    ELSE IF ~validate_name(data.name, db) THEN Err("Conflict", "validate_name", db)
    ELSE LET publishers == Player_get(data.publisher, db)
             verifiers == Player_get(data.verifier, db) IN
    IF publishers = {} THEN Err("NotFound", "publisher", db)
    ELSE IF verifiers = {} THEN Err("NotFound", "verifier", db)
    ELSE [err |-> "Ok", at |-> "checks", db |-> db,
          publisher |-> CHOOSE p \in publishers : TRUE,
          verifier |-> CHOOSE p \in verifiers : TRUE]

\* Lines 48-52 without the call of validate_name.
closure_checks_NoNameCheck(data, db) ==
    IF ~validate_position(data.position, db)
    THEN Err("OutOfRange", "validate_position", db)
    ELSE LET publishers == Player_get(data.publisher, db)
             verifiers == Player_get(data.verifier, db) IN
    IF publishers = {} THEN Err("NotFound", "publisher", db)
    ELSE IF verifiers = {} THEN Err("NotFound", "verifier", db)
    ELSE [err |-> "Ok", at |-> "checks", db |-> db,
          publisher |-> CHOOSE p \in publishers : TRUE,
          verifier |-> CHOOSE p \in verifiers : TRUE]

\* Lines 48-52 without the call of validate_position.
closure_checks_NoPositionCheck(data, db) ==
    IF ~validate_name(data.name, db) THEN Err("Conflict", "validate_name", db)
    ELSE LET publishers == Player_get(data.publisher, db)
             verifiers == Player_get(data.verifier, db) IN
    IF publishers = {} THEN Err("NotFound", "publisher", db)
    ELSE IF verifiers = {} THEN Err("NotFound", "verifier", db)
    ELSE [err |-> "Ok", at |-> "checks", db |-> db,
          publisher |-> CHOOSE p \in publishers : TRUE,
          verifier |-> CHOOSE p \in verifiers : TRUE]

\* Lines 48-52 with the verifier looked up under the publisher's name.
closure_checks_VerifierAsPublisher(data, db) ==
    IF ~validate_name(data.name, db) THEN Err("Conflict", "validate_name", db)
    ELSE IF ~validate_position(data.position, db)
    THEN Err("OutOfRange", "validate_position", db)
    ELSE LET publishers == Player_get(data.publisher, db)
             verifiers == Player_get(data.publisher, db) IN
    IF publishers = {} THEN Err("NotFound", "publisher", db)
    ELSE IF verifiers = {} THEN Err("NotFound", "verifier", db)
    ELSE [err |-> "Ok", at |-> "checks", db |-> db,
          publisher |-> CHOOSE p \in publishers : TRUE,
          verifier |-> CHOOSE p \in verifiers : TRUE]

\* The reads of the closure passed to connection.transaction, in order:
\* validate_name, validate_position, Player::get of publisher and verifier.
closure_checks(data, db) ==
    IF ~validate_name(data.name, db) THEN Err("Conflict", "validate_name", db)
    ELSE IF ~validate_position(data.position, db)
    THEN Err("OutOfRange", "validate_position", db)
    ELSE LET publishers == Player_get(data.publisher, db)
             verifiers == Player_get(data.verifier, db) IN
    IF publishers = {} THEN Err("NotFound", "publisher", db)
    ELSE IF verifiers = {} THEN Err("NotFound", "verifier", db)
    ELSE [err |-> "Ok", at |-> "checks", db |-> db,
          publisher |-> CHOOSE p \in publishers : TRUE,
          verifier |-> CHOOSE p \in verifiers : TRUE]

\* Lines 63-71 without the call of shift_down.
closure_writes_NoShift(new, names, db, fault) ==
    LET inserted == [db EXCEPT !.demons = @ \cup {new}] IN
    IF fault = "shift_down" THEN Err("TransactionFailure", "shift_down", db)
    ELSE IF fault = "insert" THEN Err("TransactionFailure", "insert", db)
    ELSE insert_creators(new.name, names, inserted, fault)

\* Lines 63-71 with shift_down called one position too far down.
closure_writes_ShiftBelow(new, names, db, fault) ==
    LET shifted == [db EXCEPT !.demons = shift_down(new.position + 1, @)]
        inserted == [shifted EXCEPT !.demons = @ \cup {new}] IN
    IF fault = "shift_down" THEN Err("TransactionFailure", "shift_down", db)
    ELSE IF fault = "insert" THEN Err("TransactionFailure", "insert", shifted)
    ELSE insert_creators(new.name, names, inserted, fault)

\* The writes of the closure, in order: shift_down, the INSERT of the new
\* row, Creator::create_from per creator. A statement that fails leaves the
\* working tables as the statements before it made them.
closure_writes(new, names, db, fault) ==
    LET shifted == [db EXCEPT !.demons = shift_down(new.position, @)]
        inserted == [shifted EXCEPT !.demons = @ \cup {new}] IN
    IF fault = "shift_down" THEN Err("TransactionFailure", "shift_down", db)
    ELSE IF fault = "insert" THEN Err("TransactionFailure", "insert", shifted)
    ELSE insert_creators(new.name, names, inserted, fault)

\* The closure with shift_down called ahead of the checks of lines 48-52.
create_closure_ShiftFirst(data, video, db, fault) ==
    LET shifted == [db EXCEPT !.demons = shift_down(data.position, @)]
        checked == closure_checks(data, shifted) IN
    IF checked.err # "Ok" THEN checked
    ELSE closure_writes(NewDemon(data, checked.verifier, checked.publisher, video),
                        data.creators, db, fault)

\* The closure passed to connection.transaction, and the working tables as
\* they are when it returns.
create_closure(data, video, db, fault) ==
    LET checked == closure_checks(data, db) IN
    IF checked.err # "Ok" THEN checked
    ELSE closure_writes(NewDemon(data, checked.verifier, checked.publisher, video),
                        data.creators, db, fault)

\* A transaction whose work survives an error of its closure.
transaction_NoRollback(result, db) == result.db

\* connection.transaction: COMMIT the closure's work on Ok, ROLLBACK on Err.
transaction(result, db) == IF result.err = "Ok" THEN result.db ELSE db

\* What create_from hands back: the Result, the committed tables, and the
\* working tables of the connection at the moment the Result was produced.
Outcome(result, committed) ==
    [err |-> result.err, at |-> result.at, db |-> committed, work |-> result.db]

\* create_from without the call of validate_requirement.
create_from_NoRequirementCheck(data, db, fault) ==
    IF data.video # <<>> /\ ~video_validate(Head(data.video))
    THEN Outcome(Err("InvalidFormat", "video", db), db)
    ELSE LET result == create_closure(data, data.video, db, fault) IN
         Outcome(result, transaction(result, db))

\* Demon::create_from.
create_from(data, db, fault) ==
    IF ~validate_requirement(data.requirement)
    THEN Outcome(Err("OutOfRange", "validate_requirement", db), db)
    ELSE IF data.video # <<>> /\ ~video_validate(Head(data.video))
    THEN Outcome(Err("InvalidFormat", "video", db), db)
    ELSE LET result == create_closure(data, data.video, db, fault) IN
         Outcome(result, transaction(result, db))

----------------------------------------------------------------------------
(* The service handling one request at a time *)

NoCall == [err |-> "none"]

NoTables == [demons |-> {}, creators |-> {}, players |-> {}]

NoTxn == [c \in {} |-> {}]

NoSeg == [all_demons |-> <<>>, rendered |-> FALSE]

\* No overview is loaded.
NoView == [loaded |-> FALSE]

\* Nothing is on record and the overview page is not in use.
NoHistory == audit = {} /\ now = EARLIEST_DATE + 1 /\ past = <<>> /\ view = NoView

Init ==
    /\ demons = {}
    /\ creators = {}
    /\ players = InitialPlayers
    /\ pc = "idle"
    /\ call = NoCall
    /\ pre = NoTables
    /\ txn = NoTxn
    /\ seg = NoSeg
    /\ NoHistory

\* POST of a demon: create_from runs to its end on the connection.
Create ==
    /\ pc = "idle"
    /\ \E data \in PostDemon(Cardinality(demons)), fault \in Faults :
         LET db == Database(demons, creators, players)
             result == create_from(data, db, fault) IN
         /\ demons' = result.db.demons
         /\ creators' = result.db.creators
         /\ players' = result.db.players
         /\ call' = [err |-> result.err, at |-> result.at, data |-> data,
                     wrote |-> result.work # db]
         /\ pre' = db
    /\ pc' = "done"
    /\ UNCHANGED <<hist, txn, seg>>

\* The response is handed to the caller; the connection is free again.
Respond ==
    /\ pc = "done"
    /\ pc' = "idle"
    /\ call' = NoCall
    /\ pre' = NoTables
    /\ UNCHANGED <<hist, demons, creators, players, txn, seg>>

Next == Create \/ Respond

Spec == Init /\ [][Next]_vars

----------------------------------------------------------------------------
(* create_from on two connections at once *)

(***************************************************************************)
(* connection.transaction opens the transaction with a plain BEGIN, at the *)
(* isolation level the server defaults to: READ COMMITTED. Every statement *)
(* reads the rows committed when it runs and the transaction's own writes; *)
(* an UPDATE waits for the row locks of another open transaction and then  *)
(* works on the rows as committed; rows another transaction has inserted   *)
(* and not committed are invisible. The statements of the two closures     *)
(* interleave; each connection posts names of its own, a requirement that  *)
(* passes, known players and no creators.                                  *)
(***************************************************************************)
Conns == {1, 2}

ConnNames(c) == IF c = 1 THEN {"Bloodbath", "Sonic Wave"} ELSE {"Cataclysm", "Aftermath"}

ConnPostDemon(c, count) ==
    {[name |-> n, position |-> p, requirement |-> 100, verifier |-> "Riot",
      publisher |-> "stardust1971", creators |-> <<>>, video |-> <<>>] :
        n \in ConnNames(c), p \in 0..(count + 2)}

Closed == [pc |-> "closed"]

InitConc ==
    /\ demons = {}
    /\ creators = {}
    /\ players = InitialPlayers
    /\ pc = "idle"
    /\ call = NoCall
    /\ pre = NoTables
    /\ txn = [c \in Conns |-> Closed]
    /\ seg = NoSeg
    /\ NoHistory

\* The tables a statement of connection c reads: the committed rows.
\* (c has written nothing before its shift_down.)
Visible == Database(demons, creators, players)

\* The rows on which another open transaction holds a row lock.
LockedByOther(c) ==
    UNION {txn[o].updated : o \in {o \in Conns \ {c} : txn[o].pc \in {"insert", "creators"}}}

\* create_from is called: the requirement and the video pass, BEGIN.
Begin(c) ==
    /\ txn[c].pc = "closed"
    /\ \E data \in ConnPostDemon(c, Cardinality(demons)) :
         /\ validate_requirement(data.requirement)
         /\ data.video = <<>>
         /\ txn' = [txn EXCEPT ![c] = [pc |-> "validate_name", data |-> data]]
    /\ UNCHANGED <<hist, demons, creators, players, pc, call, pre, seg>>

\* An Err leaves the closure: ROLLBACK.
Rollback(c) == txn' = [txn EXCEPT ![c] = Closed]

ValidateName(c) ==
    /\ txn[c].pc = "validate_name"
    /\ IF validate_name(txn[c].data.name, Visible)
       THEN txn' = [txn EXCEPT ![c].pc = "validate_position"]
       ELSE Rollback(c)
    /\ UNCHANGED <<hist, demons, creators, players, pc, call, pre, seg>>

ValidatePosition(c) ==
    /\ txn[c].pc = "validate_position"
    /\ IF validate_position(txn[c].data.position, Visible)
       THEN txn' = [txn EXCEPT ![c].pc = "publisher"]
       ELSE Rollback(c)
    /\ UNCHANGED <<hist, demons, creators, players, pc, call, pre, seg>>

GetPublisher(c) ==
    /\ txn[c].pc = "publisher"
    /\ IF Player_get(txn[c].data.publisher, Visible) # {}
       THEN txn' = [txn EXCEPT ![c].pc = "verifier"]
       ELSE Rollback(c)
    /\ UNCHANGED <<hist, demons, creators, players, pc, call, pre, seg>>

GetVerifier(c) ==
    /\ txn[c].pc = "verifier"
    /\ IF Player_get(txn[c].data.verifier, Visible) # {}
       THEN txn' = [txn EXCEPT ![c].pc = "shift_down"]
       ELSE Rollback(c)
    /\ UNCHANGED <<hist, demons, creators, players, pc, call, pre, seg>>

\* Demon::shift_down: the UPDATE of the committed rows at or below the
\* position, once no other transaction holds a lock on one of them. The
\* rows stay locked, and their new positions unpublished, until COMMIT.
ShiftDown(c) ==
    /\ txn[c].pc = "shift_down"
    /\ LET targets == {d.name : d \in {d \in demons : d.position >= txn[c].data.position}} IN
       /\ targets \cap LockedByOther(c) = {}
       /\ txn' = [txn EXCEPT ![c] = [pc |-> "insert", data |-> @.data, updated |-> targets]]
    /\ UNCHANGED <<hist, demons, creators, players, pc, call, pre, seg>>

\* insert_into(demons::table).values(&new)
Insert(c) ==
    /\ txn[c].pc = "insert"
    /\ LET data == txn[c].data
           new == NewDemon(data,
                           CHOOSE p \in Player_get(data.verifier, Visible) : TRUE,
                           CHOOSE p \in Player_get(data.publisher, Visible) : TRUE,
                           data.video) IN
       txn' = [txn EXCEPT ![c] = [pc |-> "creators", data |-> data,
                                  updated |-> @.updated, inserted |-> new]]
    /\ UNCHANGED <<hist, demons, creators, players, pc, call, pre, seg>>

\* The loop over data.creators (none here), Ok(..) and COMMIT: the shifted
\* positions and the new row become visible at once.
Commit(c) ==
    /\ txn[c].pc = "creators"
    /\ demons' = {IF d.name \in txn[c].updated THEN [d EXCEPT !.position = @ + 1] ELSE d :
                     d \in demons} \cup {txn[c].inserted}
    /\ txn' = [txn EXCEPT ![c] = Closed]
    /\ UNCHANGED <<hist, creators, players, pc, call, pre, seg>>

\* A transaction whose writes are published although it never committed.
Aborted_Publishes(c) ==
    LET updated == IF "updated" \in DOMAIN txn[c] THEN txn[c].updated ELSE {}
        inserted == IF "inserted" \in DOMAIN txn[c] THEN {txn[c].inserted} ELSE {} IN
    {IF d.name \in updated THEN [d EXCEPT !.position = @ + 1] ELSE d : d \in demons}
        \cup inserted

\* The committed rows once the transaction of c has ended without COMMIT:
\* its shifts and its row were never published and go with the transaction.
Aborted(c) == demons

\* The caller abandons create_from somewhere inside connection.transaction
\* (the request is dropped, the thread dies, the connection is lost): the
\* closure never returns Ok, no COMMIT is sent, the server ends the
\* transaction. The step it had reached is kept for the record only.
Abandon(c) ==
    /\ txn[c].pc # "closed"
    /\ demons' = Aborted(c)
    /\ txn' = [txn EXCEPT ![c] = [pc |-> "closed", abandoned |-> txn[c].pc]]
    /\ UNCHANGED <<hist, creators, players, pc, call, pre, seg>>

NextConc ==
    \E c \in Conns :
        \/ Begin(c)
        \/ ValidateName(c)
        \/ ValidatePosition(c)
        \/ GetPublisher(c)
        \/ GetVerifier(c)
        \/ ShiftDown(c)
        \/ Insert(c)
        \/ Commit(c)
        \/ Abandon(c)

SpecConc == InitConc /\ [][NextConc]_vars

----------------------------------------------------------------------------
(* The list segmentation of the overview page *)

\* Longest overview the segmentation is applied to.
MaxOverview == 5

\* `x as usize` of a 16 bit signed size: a negative value wraps around to
\* 2^64 + x. TLC's integers have 32 bits, so the wrapped value is kept as
\* 2^30 + x: like 2^64 + x it exceeds every length and every size >= 0, and
\* the wrapped values keep their order.
AsUsize(x) == IF x < 0 THEN 2^30 + x ELSE x

\* &s[from..to]: panics if from > to or to > len.
Slice(s, from, to) ==
    IF from > to \/ to > Len(s) THEN [panicked |-> TRUE, items |-> <<>>]
    ELSE [panicked |-> FALSE, items |-> SubSeq(s, from + 1, to)]

Empty == [panicked |-> FALSE, items |-> <<>>]

\* The tuple (main, extended, legacy); a panic of one slice leaves none.
Slices(main, extended, legacy) ==
    IF main.panicked \/ extended.panicked \/ legacy.panicked
    THEN [panicked |-> TRUE, main |-> <<>>, extended |-> <<>>, legacy |-> <<>>]
    ELSE [panicked |-> FALSE, main |-> main.items, extended |-> extended.items,
          legacy |-> legacy.items]

\* dropdowns with the legacy slice starting one entry late.
dropdowns_LegacyOffByOne(all_demons, list_size, extended_list_size) ==
    LET len == Len(all_demons)
        ls == AsUsize(list_size)
        es == AsUsize(extended_list_size) IN
    IF len < ls THEN Slices(Slice(all_demons, 0, len), Empty, Empty)
    ELSE IF len < es
    THEN Slices(Slice(all_demons, 0, ls), Slice(all_demons, ls, len), Empty)
    ELSE Slices(Slice(all_demons, 0, ls), Slice(all_demons, ls, es),
                Slice(all_demons, IF es < len THEN es + 1 ELSE es, len))

\* dropdowns with the extended slice starting one entry late.
dropdowns_ExtendedOffByOne(all_demons, list_size, extended_list_size) ==
    LET len == Len(all_demons)
        ls == AsUsize(list_size)
        es == AsUsize(extended_list_size) IN
    IF len < ls THEN Slices(Slice(all_demons, 0, len), Empty, Empty)
    ELSE IF len < es
    THEN Slices(Slice(all_demons, 0, ls),
                Slice(all_demons, IF ls < len THEN ls + 1 ELSE ls, len), Empty)
    ELSE Slices(Slice(all_demons, 0, ls),
                Slice(all_demons, IF ls < es THEN ls + 1 ELSE ls, es),
                Slice(all_demons, es, len))

\* dropdowns: the three slices main, extended, legacy of the overview.
dropdowns(all_demons, list_size, extended_list_size) ==
    LET len == Len(all_demons)
        ls == AsUsize(list_size)
        es == AsUsize(extended_list_size) IN
    IF len < ls THEN Slices(Slice(all_demons, 0, len), Empty, Empty)
    ELSE IF len < es
    THEN Slices(Slice(all_demons, 0, ls), Slice(all_demons, ls, len), Empty)
    ELSE Slices(Slice(all_demons, 0, ls), Slice(all_demons, ls, es),
                Slice(all_demons, es, len))

\* submission_panel offering the demons strictly above the extended size.
submission_panel_Strict(all_demons, extended_list_size) ==
    LET Accepted(demon) == demon.position < extended_list_size IN
    SelectSeq(all_demons, Accepted)

\* submission_panel: the demons its dropdown offers,
\* demons.iter().filter(|demon| demon.position <= config::extended_list_size()).
submission_panel(all_demons, extended_list_size) ==
    LET Accepted(demon) == demon.position <= extended_list_size IN
    SelectSeq(all_demons, Accepted)

\* The loop of DemonlistOverview::body: a panel for each demon with
\* demon.position <= config::extended_list_size().
body_panels(all_demons, extended_list_size) ==
    LET Shown(demon) == demon.position <= extended_list_size IN
    SelectSeq(all_demons, Shown)

\* struct OverviewDemon of the live list: row i of SELECT ... ORDER BY position.
OverviewDemon(i) == [id |-> 100 + i, position |-> i]

\* The overview handed to dropdowns and the sizes config returns.
InitSeg ==
    /\ demons = {}
    /\ creators = {}
    /\ players = InitialPlayers
    /\ pc = "idle"
    /\ call = NoCall
    /\ pre = NoTables
    /\ txn = NoTxn
    /\ NoHistory
    /\ \E n \in 0..MaxOverview, list_size, extended_list_size \in -1..(MaxOverview + 1) :
         seg = [all_demons |-> [i \in 1..n |-> OverviewDemon(i)],
                list_size |-> list_size,
                extended_list_size |-> extended_list_size,
                rendered |-> FALSE,
                out |-> Slices(Empty, Empty, Empty),
                offered |-> <<>>,
                panels |-> <<>>]

\* DemonlistOverview::body renders the dropdowns, the submission panel and
\* the panels of the demons; a panic of dropdowns ends it before the rest.
Dropdowns ==
    /\ ~seg.rendered
    /\ LET out == dropdowns(seg.all_demons, seg.list_size, seg.extended_list_size) IN
       seg' = [seg EXCEPT !.rendered = TRUE,
                          !.out = out,
                          !.offered = IF out.panicked THEN <<>>
                                      ELSE submission_panel(seg.all_demons,
                                                            seg.extended_list_size),
                          !.panels = IF out.panicked THEN <<>>
                                     ELSE body_panels(seg.all_demons,
                                                      seg.extended_list_size)]
    /\ UNCHANGED <<hist, demons, creators, players, pc, call, pre, txn>>

NextSeg == Dropdowns

SpecSeg == InitSeg /\ [][NextSeg]_vars

----------------------------------------------------------------------------
(* The overview page and the history of the ranking *)

(***************************************************************************)
(* The audit facts, list_at, update_position and retire are declared       *)
(* elsewhere in the repository; they are modelled from spec.md 4.2-4.4.    *)
(* Every change of a demon's position (the row a mutation targets and the  *)
(* rows it shifts) leaves one fact {entry, position, valid_from}. The      *)
(* clock counts instants; a mutation takes the instant it runs in, so no   *)
(* two facts of one demon share a valid_from. A demon is known by its      *)
(* name, and a name is used for one demon only.                            *)
(***************************************************************************)

\* Last instant of the clock.
MaxTime == 7

HistNames == {"Bloodbath", "Cataclysm", "Sonic Wave"}

\* The requests of the history: every field but name and position passes.
HistPostDemon(count) ==
    {[name |-> n, position |-> p, requirement |-> 100, verifier |-> "Riot",
      publisher |-> "stardust1971", creators |-> <<>>, video |-> <<>>] :
        n \in HistNames, p \in 0..(count + 2)}

\* Option<T>: <<>> is None, <<v>> is Some(v).
None == <<>>

Some(v) == <<v>>

\* The value of the cookie "when": a text that is an RFC 3339 date, or not.
Cookies ==
    {None, Some([rfc3339 |-> FALSE, time |-> 0])}
        \cup {Some([rfc3339 |-> TRUE, time |-> t]) : t \in 0..(MaxTime + 1)}

\* DateTime::parse_from_rfc3339
parse_from_rfc3339(value) ==
    IF value.rfc3339 THEN [ok |-> TRUE, time |-> value.time] ELSE [ok |-> FALSE]

\* ORDER BY position
RECURSIVE OrderByPosition(_)
OrderByPosition(rows) ==
    IF rows = {} THEN <<>>
    ELSE LET first == CHOOSE r \in rows : \A o \in rows : r.position <= o.position IN
         <<first>> \o OrderByPosition(rows \ {first})

\* INNER JOIN players ON publisher, INNER JOIN players AS verifiers ON verifier
JoinPlayers(rows, db) ==
    {d \in rows : /\ \E p \in db.players : p.id = d.publisher
                  /\ \E p \in db.players : p.id = d.verifier}

\* The position a demon has now, as list_at reports it.
current_position(name, db) ==
    LET rows == {d \in Active(db.demons) : d.name = name} IN
    IF rows = {} THEN None ELSE Some((CHOOSE d \in rows : TRUE).position)

\* list_at(time): per demon the latest fact with valid_from <= time, the
\* demons whose fact has a position, each with its row of `demons`.
list_at(time, db, facts) ==
    LET known == {f \in facts : f.valid_from <= time}
        latest == {f \in known :
                     \A g \in known : g.entry = f.entry => g.valid_from <= f.valid_from} IN
    {[name |-> fd[2].name, position_ |-> fd[1].position, publisher |-> fd[2].publisher,
      verifier |-> fd[2].verifier,
      current_position |-> current_position(fd[2].name, db)] :
        fd \in {fd \in latest \X db.demons :
                   fd[1].position # Null /\ fd[2].name = fd[1].entry}}

\* overview_demons reading the table `demons` whatever `at` is.
overview_demons_AlwaysLive(db, facts, at) ==
    [from |-> "demons",
     rows |-> OrderByPosition(
         {[id |-> d.name, position |-> d.position, current_position |-> None] :
             d \in JoinPlayers(Active(db.demons), db)})]

\* overview_demons without WHERE position IS NOT NULL.
overview_demons_NoNullFilter(db, facts, at) ==
    IF at = None
    THEN [from |-> "demons",
          rows |-> OrderByPosition(
              {[id |-> d.name, position |-> d.position, current_position |-> None] :
                  d \in JoinPlayers(db.demons, db)})]
    ELSE [from |-> "list_at",
          rows |-> OrderByPosition(
              {[id |-> d.name, position |-> d.position_,
                current_position |-> d.current_position] :
                  d \in JoinPlayers(list_at(at[1], db, facts), db)})]

\* overview_demons: the live list (at = None) or the list of a past instant.
overview_demons(db, facts, at) ==
    IF at = None
    THEN [from |-> "demons",
          rows |-> OrderByPosition(
              {[id |-> d.name, position |-> d.position, current_position |-> None] :
                  d \in JoinPlayers(Active(db.demons), db)})]
    ELSE [from |-> "list_at",
          rows |-> OrderByPosition(
              {[id |-> d.name, position |-> d.position_,
                current_position |-> d.current_position] :
                  d \in JoinPlayers(list_at(at[1], db, facts), db)})]

\* `when` of index with the clamp to EARLIEST_DATE left out.
index_when_NoClamp(cookie, clock) ==
    IF cookie = None THEN None
    ELSE LET when == parse_from_rfc3339(cookie[1]) IN
         IF when.ok /\ when.time >= clock THEN None
         ELSE IF when.ok THEN Some(when.time)
         ELSE None

\* `when` of index with `when > Utc::now()` in the second arm.
index_when_AfterNow(cookie, clock) ==
    IF cookie = None THEN None
    ELSE LET when == parse_from_rfc3339(cookie[1]) IN
         IF when.ok /\ when.time < EARLIEST_DATE THEN Some(EARLIEST_DATE)
         ELSE IF when.ok /\ when.time > clock THEN None
         ELSE IF when.ok THEN Some(when.time)
         ELSE None

\* `when` of index with a cookie that does not parse taken as EARLIEST_DATE.
index_when_UnparsedIsEarliest(cookie, clock) ==
    IF cookie = None THEN None
    ELSE LET when == parse_from_rfc3339(cookie[1]) IN
         IF when.ok /\ when.time < EARLIEST_DATE THEN Some(EARLIEST_DATE)
         ELSE IF when.ok /\ when.time >= clock THEN None
         ELSE IF when.ok THEN Some(when.time)
         ELSE Some(EARLIEST_DATE)

\* `when` of index: the instant the overview is loaded for, None for now.
index_when(cookie, clock) ==
    IF cookie = None THEN None
    ELSE LET when == parse_from_rfc3339(cookie[1]) IN
         IF when.ok /\ when.time < EARLIEST_DATE THEN Some(EARLIEST_DATE)
         ELSE IF when.ok /\ when.time >= clock THEN None
         ELSE IF when.ok THEN Some(when.time)
         ELSE None

\* index and DemonlistOverview::load: the overview of the page.
index(cookie, db, facts, clock) ==
    LET when == index_when(cookie, clock) IN
    [loaded |-> TRUE, cookie |-> cookie, when |-> when,
     demon_overview |-> overview_demons(db, facts, when)]

\* The facts a mutation leaves at instant t: one per demon whose position
\* is not what it was, the new demon included.
audit_facts(before, after, t) ==
    {[entry |-> d.name, position |-> d.position, valid_from |-> t] :
        d \in {d \in after : \A b \in before : b.name = d.name => b.position # d.position}}

\* update_position(id, new_position): the bounds are validated, shift_up at
\* the old position, shift_down at the new one, then the position is written.
update_position(name, new_position, db) ==
    LET found == {d \in Active(db.demons) : d.name = name} IN
    IF found = {} THEN Err("NotFound", "demon", db)
    ELSE IF ~validate_position(new_position, db)
    THEN Err("OutOfRange", "validate_position", db)
    ELSE LET old == (CHOOSE d \in found : TRUE).position
             up == shift_up(old, db.demons)
             down == shift_down(new_position, up) IN
         Ok([db EXCEPT !.demons =
                {IF d.name = name THEN [d EXCEPT !.position = new_position] ELSE d :
                    d \in down}])

\* retire(id): shift_up at the old position, then the position becomes null;
\* the row stays.
retire(name, db) ==
    LET found == {d \in Active(db.demons) : d.name = name} IN
    IF found = {} THEN Err("NotFound", "demon", db)
    ELSE LET old == (CHOOSE d \in found : TRUE).position
             up == shift_up(old, db.demons) IN
         Ok([db EXCEPT !.demons =
                {IF d.name = name THEN [d EXCEPT !.position = Null] ELSE d : d \in up}])

\* What list_active() returns: the ids and positions of the live overview.
list_active(db) ==
    LET rows == overview_demons(db, {}, None).rows IN
    [i \in 1..Len(rows) |-> [id |-> rows[i].id, position |-> rows[i].position]]

\* A mutation has returned at instant `now`: its transaction is committed
\* or rolled back, the facts of a commit are on record, the clock moves on.
Mutated(op, name, position, result) ==
    LET committed == transaction(result, Database(demons, creators, players)) IN
    /\ demons' = committed.demons
    /\ creators' = committed.creators
    /\ players' = committed.players
    /\ audit' = audit \cup audit_facts(demons, committed.demons, now)
    /\ past' = Append(past, list_active(committed))
    /\ now' = now + 1
    /\ call' = [err |-> result.err, at |-> result.at, op |-> op, name |-> name,
                position |-> position]
    /\ pre' = Database(demons, creators, players)
    /\ UNCHANGED <<pc, txn, seg, view>>

\* create of a demon whose name was never used.
HistCreate ==
    /\ ~view.loaded /\ now < MaxTime
    /\ \E data \in HistPostDemon(Cardinality(Active(demons))) :
         /\ \A d \in demons : ~CiEq(d.name, data.name)
         /\ LET db == Database(demons, creators, players)
                result == create_from(data, db, "none") IN
            Mutated("create", data.name, data.position, result)

UpdatePosition ==
    /\ ~view.loaded /\ now < MaxTime
    /\ \E d \in Active(demons), new_position \in 0..(Cardinality(Active(demons)) + 2) :
         Mutated("update_position", d.name, new_position,
                 update_position(d.name, new_position, Database(demons, creators, players)))

Retire ==
    /\ ~view.loaded /\ now < MaxTime
    /\ \E d \in Active(demons) :
         Mutated("retire", d.name, Null, retire(d.name, Database(demons, creators, players)))

\* An instant passes without a mutation.
Tick ==
    /\ ~view.loaded /\ now < MaxTime
    /\ now' = now + 1
    /\ past' = Append(past, list_active(Database(demons, creators, players)))
    /\ UNCHANGED <<demons, creators, players, pc, call, pre, txn, seg, audit, view>>

\* GET /demonlist/ with or without the cookie "when".
Index ==
    /\ ~view.loaded
    /\ \E cookie \in Cookies :
         view' = index(cookie, Database(demons, creators, players), audit, now)
    /\ UNCHANGED <<demons, creators, players, pc, call, pre, txn, seg, audit, now, past>>

\* The page is rendered and sent.
Render ==
    /\ view.loaded
    /\ view' = NoView
    /\ UNCHANGED <<demons, creators, players, pc, call, pre, txn, seg, audit, now, past>>

NextHist == HistCreate \/ UpdatePosition \/ Retire \/ Tick \/ Index \/ Render

SpecHist == Init /\ [][NextHist]_vars

----------------------------------------------------------------------------
(* Properties of create_from, one request at a time (Spec) *)

Positions(rows) == {d.position : d \in rows}

\* The positions are 1..N without gap or duplicate, N the number of rows.
Dense(rows) == Positions(rows) = 1..Cardinality(rows)

Returned == pc = "done"

Succeeded == Returned /\ call.err = "Ok"

Unchanged == demons = pre.demons /\ creators = pre.creators /\ players = pre.players

\* The request passes the two checks made before the transaction opens.
PassesEarlyChecks(data) ==
    /\ validate_requirement(data.requirement)
    /\ data.video = <<>> \/ video_validate(Head(data.video))

NameTaken(data, db) == \E d \in db.demons : CiEq(d.name, data.name)

PositionOutOfRange(data, db) ==
    data.position < 1 \/ data.position > Cardinality(db.demons) + 1

Unresolved(name, db) == \A p \in db.players : ~CiEq(p.name, name)

\* C1: after N successful creates, whatever positions they asked for, the
\* active positions are exactly 1..N: every successful create adds one row
\* and the positions stay dense.
C1_DensePositions ==
    /\ Dense(demons)
    /\ Succeeded => Cardinality(demons) = Cardinality(pre.demons) + 1
    /\ Returned /\ call.err # "Ok" => Cardinality(demons) = Cardinality(pre.demons)

\* Three rows, the last one inserted at a position that was already taken.
C1_Witness ==
    /\ Succeeded
    /\ Cardinality(demons) = 3
    /\ call.data.position \in Positions(pre.demons)

\* C2: a successful create at p moves every earlier row at a position >= p
\* down by exactly one, leaves every row at a position < p alone, and puts
\* the new row at p.
C2_ShiftFrame ==
    Succeeded =>
        LET p == call.data.position IN
        /\ demons =
             {IF o.position >= p THEN [o EXCEPT !.position = @ + 1] ELSE o : o \in pre.demons}
                 \cup {d \in demons : d.name = call.data.name}
        /\ \A d \in demons : d.name = call.data.name => d.position = p
        /\ \E d \in demons : d.name = call.data.name
        /\ \A o \in pre.demons : o.name # call.data.name

\* An insert in the middle: a row above p stays, a row at p moves.
C2_Witness ==
    /\ Succeeded
    /\ Cardinality(pre.demons) = 2
    /\ call.data.position = 2

\* C4: a create that fails inside its transaction, at any statement, leaves
\* the committed tables as they were before the call.
C4_RollbackOnError ==
    Returned /\ call.err # "Ok" => Unchanged

\* The second creator is unknown: the failure comes after the shift, the
\* insert of the row and the insert of the first creator link.
C4_Witness ==
    /\ Returned
    /\ call.err = "NotFound" /\ call.at = "creator"
    /\ Len(call.data.creators) = 2
    /\ call.data.position \in Positions(pre.demons)

\* C5 as stated: a create whose name is taken, compared case-insensitively,
\* fails with Conflict and changes nothing.
C5_Original ==
    Returned /\ NameTaken(call.data, pre) => call.err = "Conflict" /\ Unchanged

\* C5 amended: a create whose name is taken fails and changes nothing; the
\* error is Conflict when the requirement and the video, which are checked
\* first, are valid.
C5_NameConflict ==
    Returned /\ NameTaken(call.data, pre) =>
        /\ call.err # "Ok"
        /\ Unchanged
        /\ PassesEarlyChecks(call.data) => call.err = "Conflict"

\* "bloodbath" is posted while "Bloodbath" is on the list, or the reverse.
C5_Witness ==
    /\ Returned
    /\ call.err = "Conflict"
    /\ \E d \in pre.demons : CiEq(d.name, call.data.name) /\ d.name # call.data.name

\* The error of validate_position.
PositionRejected == call.err = "OutOfRange" /\ call.at = "validate_position"

\* C6 as stated: a create is rejected with OutOfRange (of the position)
\* exactly when pos < 1 or pos > count + 1; a rejected create changes
\* nothing and an accepted one stores the row at exactly pos.
C6_Original ==
    Returned =>
        /\ PositionRejected <=> PositionOutOfRange(call.data, pre)
        /\ PositionRejected => Unchanged
        /\ call.err = "Ok" =>
              \E d \in demons : d.name = call.data.name /\ d.position = call.data.position

\* C6 amended: the same, for a create that passes the checks made before
\* validate_position (requirement, video, name).
C6_PositionRange ==
    Returned =>
        /\ PassesEarlyChecks(call.data) /\ ~NameTaken(call.data, pre) =>
              (PositionRejected <=> PositionOutOfRange(call.data, pre))
        /\ PositionRejected => PositionOutOfRange(call.data, pre) /\ Unchanged
        /\ call.err = "Ok" =>
              \E d \in demons : d.name = call.data.name /\ d.position = call.data.position

\* The tail position count + 1 is accepted into a list of two.
C6_Witness ==
    /\ Succeeded
    /\ Cardinality(pre.demons) = 2
    /\ call.data.position = 3

\* C7: a create is rejected with OutOfRange (of the requirement) exactly
\* when r < 0 or r > 100; every stored requirement is within 0..100 and the
\* row a create stores has the requirement the caller supplied.
C7_RequirementRange ==
    /\ \A d \in demons : d.requirement >= 0 /\ d.requirement <= 100
    /\ Returned =>
          /\ (call.err = "OutOfRange" /\ call.at = "validate_requirement")
                <=> (call.data.requirement < 0 \/ call.data.requirement > 100)
          /\ call.err = "Ok" =>
                \E d \in demons :
                    d.name = call.data.name /\ d.requirement = call.data.requirement

\* Both bounds are stored: a row with 0 is on the list and one with 100 is added.
C7_Witness ==
    /\ Succeeded
    /\ call.data.requirement = 100
    /\ \E d \in pre.demons : d.requirement = 0

\* Every publisher and verifier of a row is the id of a player.
ReferencesResolve ==
    \A d \in demons :
        /\ \E p \in players : p.id = d.publisher
        /\ \E p \in players : p.id = d.verifier

\* C8 as stated: a create whose publisher or verifier names no player fails
\* with NotFound and creates nothing; every stored reference resolves.
C8_Original ==
    /\ ReferencesResolve
    /\ Returned /\ (Unresolved(call.data.publisher, pre) \/ Unresolved(call.data.verifier, pre))
          => call.err = "NotFound" /\ Unchanged

\* C8 amended: such a create fails and creates nothing; the error is
\* NotFound when the checks made before the lookups (requirement, video,
\* name, position) pass; every stored reference resolves.
C8_ActorNotFound ==
    /\ ReferencesResolve
    /\ Returned /\ (Unresolved(call.data.publisher, pre) \/ Unresolved(call.data.verifier, pre))
          => /\ call.err # "Ok"
             /\ Unchanged
             /\ ( /\ PassesEarlyChecks(call.data)
                  /\ ~NameTaken(call.data, pre)
                  /\ ~PositionOutOfRange(call.data, pre) ) => call.err = "NotFound"

\* An unknown verifier, in a request that would have shifted rows.
C8_Witness ==
    /\ Returned
    /\ call.err = "NotFound" /\ call.at = "verifier"
    /\ call.data.position \in Positions(pre.demons)

\* C9: no two rows have names that are equal case-insensitively.
C9_UniqueNames ==
    \A d, e \in demons : CiEq(d.name, e.name) => d = e

\* Three names are on the list and a fourth create was turned down for
\* its name differing from one of them in case only.
C9_Witness ==
    /\ Cardinality(demons) = 3
    /\ Returned /\ call.err = "Conflict"
    /\ \E d \in demons : CiEq(d.name, call.data.name) /\ d.name # call.data.name

\* The errors of validation and of actor resolution.
InputErrors == {"OutOfRange", "InvalidFormat", "Conflict", "NotFound"}

\* C19 as stated: whenever create_from returns a validation error or an
\* actor resolution error, that of a creator included, no write had been
\* made on the connection when the error was raised.
C19_Original ==
    (Returned /\ call.err \in InputErrors) => ~call.wrote

\* C19 amended: the validation errors and the resolution errors of the
\* publisher and the verifier are raised before the first write; the
\* resolution error of a creator is raised after shift_down and the INSERT
\* of the row, and the transaction rolls both back.
C19_ChecksBeforeWrites ==
    (Returned /\ call.err \in InputErrors) =>
        /\ call.at # "creator" => ~call.wrote
        /\ call.at = "creator" => call.wrote /\ Unchanged

\* A creator is not found after rows were shifted and the row was inserted.
C19_Witness ==
    /\ Returned /\ call.err = "NotFound" /\ call.at = "creator"
    /\ call.wrote /\ Unchanged
    /\ \E d \in demons : d.position >= call.data.position

----------------------------------------------------------------------------
(* Properties of dropdowns (SpecSeg) *)

Segmented == seg.rendered

\* C10 as stated: for every length and every pair of sizes the three slices
\* exist, their lengths add up to the length of the overview and their
\* concatenation is the overview.
C10_Original ==
    Segmented =>
        /\ ~seg.out.panicked
        /\ Len(seg.out.main) + Len(seg.out.extended) + Len(seg.out.legacy)
             = Len(seg.all_demons)
        /\ seg.out.main \o seg.out.extended \o seg.out.legacy = seg.all_demons

\* The sizes for which &all_demons[list_size..extended_list_size] panics.
SliceOutOfOrder ==
    /\ AsUsize(seg.extended_list_size) < AsUsize(seg.list_size)
    /\ AsUsize(seg.list_size) <= Len(seg.all_demons)

\* C10 amended: the same, except where extended_size < main_size <= N: there,
\* and only there, the slicing panics.
C10_Partition ==
    Segmented =>
        /\ seg.out.panicked <=> SliceOutOfOrder
        /\ ~SliceOutOfOrder =>
              /\ Len(seg.out.main) + Len(seg.out.extended) + Len(seg.out.legacy)
                   = Len(seg.all_demons)
              /\ seg.out.main \o seg.out.extended \o seg.out.legacy = seg.all_demons

\* Sizes (2, 4) and five entries: all three slices are non-empty.
C10_Witness ==
    /\ Segmented
    /\ seg.list_size = 2 /\ seg.extended_list_size = 4
    /\ Len(seg.all_demons) = 5
    /\ Len(seg.out.main) = 2 /\ Len(seg.out.extended) = 2 /\ Len(seg.out.legacy) = 1

\* The entries of the overview whose position lies in lo..hi.
PositionsBetween(lo, hi) ==
    LET InRange(d) == lo <= d.position /\ d.position <= hi IN
    SelectSeq(seg.all_demons, InRange)

\* C11: for sizes 0 <= main_size < extended_size and a dense overview of N
\* entries no slice panics, main holds the positions 1..main_size, extended
\* the positions main_size+1..extended_size and legacy the positions
\* extended_size+1..N; a segment whose range starts beyond N is empty.
C11_Thresholds ==
    (Segmented /\ 0 <= seg.list_size /\ seg.list_size < seg.extended_list_size) =>
        /\ ~seg.out.panicked
        /\ seg.out.main = PositionsBetween(1, seg.list_size)
        /\ seg.out.extended
             = PositionsBetween(seg.list_size + 1, seg.extended_list_size)
        /\ seg.out.legacy
             = PositionsBetween(seg.extended_list_size + 1, Len(seg.all_demons))
        /\ Len(seg.all_demons) < seg.list_size =>
              seg.out.extended = <<>> /\ seg.out.legacy = <<>>
        /\ Len(seg.all_demons) < seg.extended_list_size => seg.out.legacy = <<>>

\* Sizes (2, 4) and five entries: positions [1,2], [3,4] and [5].
C11_Witness ==
    /\ Segmented
    /\ seg.list_size = 2 /\ seg.extended_list_size = 4
    /\ [i \in 1..Len(seg.all_demons) |-> seg.all_demons[i].position]
         = <<1, 2, 3, 4, 5>>
    /\ [i \in 1..Len(seg.out.main) |-> seg.out.main[i].position] = <<1, 2>>
    /\ [i \in 1..Len(seg.out.extended) |-> seg.out.extended[i].position] = <<3, 4>>
    /\ [i \in 1..Len(seg.out.legacy) |-> seg.out.legacy[i].position] = <<5>>

\* The entries of the overview that are not in the sequence `shown`.
Excluded(shown) ==
    LET Missing(d) == \A i \in 1..Len(shown) : shown[i] # d IN
    SelectSeq(seg.all_demons, Missing)

\* C21: for sizes 0 <= main_size <= extended_size and a dense overview, the
\* demons the body shows panels for and the demons the submission dropdown
\* offers (position <= extended_list_size) are main followed by extended,
\* and the demons left out of both are legacy.
C21_SlicesMatchFilters ==
    (Segmented /\ 0 <= seg.list_size /\ seg.list_size <= seg.extended_list_size) =>
        /\ ~seg.out.panicked
        /\ seg.panels = seg.out.main \o seg.out.extended
        /\ seg.offered = seg.out.main \o seg.out.extended
        /\ Excluded(seg.panels) = seg.out.legacy
        /\ Excluded(seg.offered) = seg.out.legacy

\* Sizes (2, 3) and five entries: three demons shown and offered, two left
\* to legacy.
C21_Witness ==
    /\ Segmented
    /\ seg.list_size = 2 /\ seg.extended_list_size = 3
    /\ Len(seg.all_demons) = 5
    /\ Len(seg.offered) = 3 /\ Len(seg.panels) = 3
    /\ Len(seg.out.extended) = 1 /\ Len(seg.out.legacy) = 2

----------------------------------------------------------------------------
(* Properties of concurrent creates (SpecConc) *)

\* C3: however the transactions of concurrent creates interleave, no two
\* committed rows share a position and the committed positions are 1..N.
C3_ConcurrentDense == Dense(demons)

----------------------------------------------------------------------------
(* Properties of the overview page and of the history (SpecHist) *)

Live == Database(demons, creators, players)

\* The ids and positions of the overview the page has loaded.
ViewList ==
    LET rows == view.demon_overview.rows IN
    [i \in 1..Len(rows) |-> [id |-> rows[i].id, position |-> rows[i].position]]

\* What list_active() returned at instant t: nothing before the first
\* instant of the service, the live list from now on.
ListAsOf(t) ==
    IF t <= EARLIEST_DATE THEN <<>>
    ELSE IF t >= now THEN list_active(Live)
    ELSE past[t - EARLIEST_DATE]

AskedForNow ==
    /\ view.loaded /\ view.cookie # None
    /\ view.cookie[1].rfc3339 /\ view.cookie[1].time = now

\* The loaded overview is the table's active rows in the order of position.
ShowsLiveList ==
    /\ {ViewList[i] : i \in 1..Len(ViewList)}
         = {[id |-> d.name, position |-> d.position] : d \in Active(demons)}
    /\ Len(ViewList) = Cardinality(Active(demons))
    /\ \A i, j \in 1..Len(ViewList) : i < j => ViewList[i].position <= ViewList[j].position

AskedBeforeEarliest ==
    /\ view.loaded /\ view.cookie # None
    /\ view.cookie[1].rfc3339 /\ view.cookie[1].time < EARLIEST_DATE

\* C14: a request for an instant before EARLIEST_DATE is served as a request
\* for EARLIEST_DATE: the overview is loaded (no error), from list_at, and is
\* the list as it was at EARLIEST_DATE, which is empty when no fact is that
\* old.
C14_ClampToEarliest ==
    AskedBeforeEarliest =>
        /\ view.when = Some(EARLIEST_DATE)
        /\ view.demon_overview.from = "list_at"
        /\ view.demon_overview = overview_demons(Live, audit, Some(EARLIEST_DATE))
        /\ ViewList = ListAsOf(EARLIEST_DATE)

\* An instant before EARLIEST_DATE is asked for while the list has entries:
\* the overview of EARLIEST_DATE is loaded, and it is empty.
C14_Witness ==
    /\ AskedBeforeEarliest
    /\ view.cookie[1].time = EARLIEST_DATE - 1
    /\ list_active(Live) # <<>>
    /\ view.when = Some(EARLIEST_DATE)
    /\ ViewList = <<>>

\* The page was asked for an instant that is not in the past.
AskedForNowOrLater ==
    /\ view.loaded /\ view.cookie # None
    /\ view.cookie[1].rfc3339 /\ view.cookie[1].time >= now

\* C15: a request for an instant at or after now has no historical view:
\* `when` is None and the overview is read from the table `demons`, the
\* audit facts playing no part in it.
C15_NowOrLaterIsLive ==
    AskedForNowOrLater =>
        /\ view.when = None
        /\ view.demon_overview.from = "demons"
        /\ view.demon_overview = overview_demons(Live, {}, None)
        /\ ShowsLiveList

\* Now or the instant after is asked for, with facts on record and a past
\* list that differs from the live one.
C15_Witness ==
    /\ AskedForNowOrLater
    /\ view.cookie[1].time \in {now, now + 1}
    /\ audit # {}
    /\ view.when = None
    /\ ViewList # <<>>
    /\ \E t \in EARLIEST_DATE..(now - 1) : ListAsOf(t) # ViewList

\* C22: whatever the cookie "when" is (absent, not an RFC 3339 date, or any
\* date), the overview is loaded, and `when` is None or an instant t with
\* EARLIEST_DATE <= t < now; without a cookie, or with one that does not
\* parse, `when` is None and the overview is the live list.
C22_EffectiveTime ==
    view.loaded =>
        /\ \/ view.when = None
           \/ EARLIEST_DATE <= view.when[1] /\ view.when[1] < now
        /\ (view.cookie = None \/ ~view.cookie[1].rfc3339) =>
              /\ view.when = None
              /\ view.demon_overview.from = "demons"
              /\ ShowsLiveList

\* A cookie that does not parse, with facts on record and demons on the
\* list: the live list is loaded.
C22_Witness ==
    /\ view.loaded /\ view.cookie # None /\ ~view.cookie[1].rfc3339
    /\ view.when = None
    /\ audit # {} /\ ViewList # <<>>

\* The last mutation was `op` and it committed.
Committed(op) == "op" \in DOMAIN call /\ call.op = op /\ call.err = "Ok"

\* The demons other than the target keep their order from `pre` to now.
OthersKeepOrder ==
    \A a, b \in Active(pre.demons) :
        (a.name # call.name /\ b.name # call.name /\ a.position < b.position) =>
            \E c, d \in Active(demons) :
                c.name = a.name /\ d.name = b.name /\ c.position < d.position

\* C16: after update_position(id, new_position) with a new_position the
\* bounds validation accepts, the positions of the active demons are 1..N,
\* the demon is at new_position and the other demons are in the order they
\* were in.
C16_MoveKeepsDense ==
    Committed("update_position") =>
        /\ Dense(Active(demons))
        /\ \E d \in Active(demons) : d.name = call.name /\ d.position = call.position
        /\ OthersKeepOrder

\* C17: after retire(id) of an active demon of a list of N, list_active()
\* is without it and the positions of the others are 1..N-1, in the order
\* they were in.
C17_RetireKeepsDense ==
    Committed("retire") =>
        /\ \A i \in 1..Len(list_active(Live)) : list_active(Live)[i].id # call.name
        /\ [i \in 1..Len(list_active(Live)) |-> list_active(Live)[i].position]
             = [i \in 1..(Cardinality(Active(pre.demons)) - 1) |-> i]
        /\ OthersKeepOrder

\* C20: whatever step a create has reached inside its transaction, the
\* list_active() a reader runs at that moment shows the positions 1..N:
\* no position twice, none missing.
C20_ReadDuringCreate ==
    (\E c \in Conns : txn[c].pc # "closed") =>
        LET list == list_active(Visible) IN
        [i \in 1..Len(list) |-> list[i].position] = [i \in 1..Len(list) |-> i]

====
